---- MODULE Spec2Model ----
(***************************************************************************)
(* Route finder of src/utils/routeOptimization.ts: findShortestPath        *)
(* (Dijkstra over an adjacency list rebuilt on every call) and             *)
(* findOptimalRoute (greedy nearest-destination sequencing).               *)
(* Distances are integers (tenths of a kilometre), times are minutes.      *)
(***************************************************************************)
EXTENDS Integers, Sequences, FiniteSets, TLC

\* ------------------------------------------------------------------ bounds
MaxPoints == 3      \* points of an enumerated graph: 0..MaxPoints
MaxConns == 3       \* connections of an enumerated graph: 0..MaxConns
MaxDist == 1        \* connection distances 0..MaxDist
MaxTime == 1        \* connection times 0..MaxTime
MaxDests == 2       \* length of the destinations array: 0..MaxDests
MaxUnwind == 2      \* undefined entries followed in the path reconstruction

\* ------------------------------------------------------- JavaScript values
Infinity == -1
Null == "null"
Undefined == "undefined"
AbsentId == "Z"

\* a < b on numbers that may be Infinity
LessThan(a, b) == a # Infinity /\ (b = Infinity \/ a < b)

\* a + b on numbers that may be Infinity
Plus(a, b) == IF a = Infinity \/ b = Infinity THEN Infinity ELSE a + b

Range(s) == {s[i] : i \in 1..Len(s)}

\* ------------------------------------------------------------------ graphs
IdNames == <<"A", "B", "C", "D", "E", "V", "Y">>

Conn(f, t, d, m) == [from |-> f, to |-> t, distance |-> d, time |-> m]

sampleGraph ==
  [points |-> IdNames,
   connections |-> <<Conn("A", "B", 5, 3), Conn("A", "E", 7, 5),
                     Conn("A", "V", 4, 2), Conn("B", "C", 8, 6),
                     Conn("B", "Y", 11, 8), Conn("C", "D", 6, 4),
                     Conn("C", "Y", 9, 7), Conn("D", "E", 12, 10),
                     Conn("E", "V", 6, 4), Conn("E", "Y", 5, 3),
                     Conn("V", "Y", 9, 7)>>]

\* Object.keys(graph.points), in insertion order
Keys(g) == g.points

KeySet(g) == Range(g.points)

WellFormed(g) ==
  \A i \in 1..Len(g.connections) :
     g.connections[i].from \in KeySet(g) /\ g.connections[i].to \in KeySet(g)

\* ------------------------------------------- findShortestPath: adjacency
\* lines 37-39: an empty list for every key of graph.points
EmptyAdjacency(g) == [p \in KeySet(g) |-> <<>>]

Neighbor(i, d, m) == [id |-> i, distance |-> d, time |-> m]

\* PushConnection without the reverse entry of lines 49-53
PushConnectionOneWay(adj, conn) ==
  IF conn.from \notin DOMAIN adj \/ conn.to \notin DOMAIN adj
  THEN [thrown |-> TRUE, list |-> adj]
  ELSE [thrown |-> FALSE,
        list |-> [adj EXCEPT ![conn.from] =
                    Append(@, Neighbor(conn.to, conn.distance, conn.time))]]

\* PushConnection that keeps one entry for equal parallel connections
PushConnectionMerged(adj, conn) ==
  IF conn.from \notin DOMAIN adj \/ conn.to \notin DOMAIN adj
  THEN [thrown |-> TRUE, list |-> adj]
  ELSE LET forth == Neighbor(conn.to, conn.distance, conn.time)
           back == Neighbor(conn.from, conn.distance, conn.time)
           Put(list, e) == IF e \in Range(list) THEN list ELSE Append(list, e)
           pushed == [adj EXCEPT ![conn.from] = Put(@, forth)]
       IN [thrown |-> FALSE,
           list |-> [pushed EXCEPT ![conn.to] = Put(@, back)]]

\* lines 43-53: one connection pushed under from, then under to.
\* adjacencyList[x].push on a missing key throws a TypeError.
PushConnection(adj, conn) ==
  IF conn.from \notin DOMAIN adj
  THEN [thrown |-> TRUE, list |-> adj]
  ELSE LET a1 == [adj EXCEPT ![conn.from] =
                    Append(@, Neighbor(conn.to, conn.distance, conn.time))]
       IN IF conn.to \notin DOMAIN a1
          THEN [thrown |-> TRUE, list |-> a1]
          ELSE [thrown |-> FALSE,
                list |-> [a1 EXCEPT ![conn.to] =
                    Append(@, Neighbor(conn.from, conn.distance, conn.time))]]

RECURSIVE PushConnections(_, _, _)
PushConnections(adj, conns, i) ==
  IF i > Len(conns)
  THEN [thrown |-> FALSE, list |-> adj]
  ELSE LET r == PushConnection(adj, conns[i])
       IN IF r.thrown THEN r ELSE PushConnections(r.list, conns, i + 1)

\* lines 33-54
BuildAdjacency(g) == PushConnections(EmptyAdjacency(g), g.connections, 1)

\* ------------------------------------------ findShortestPath: the search
\* InitialLabels without line 70: the start keeps Infinity
InitialLabelsStartUnset(g, startId) ==
  [p \in KeySet(g) \cup {startId} |-> Infinity]

\* lines 63-71: Infinity for every key, then 0 under startId (a new key
\* when startId is not a point)
InitialLabels(g, startId) ==
  [p \in KeySet(g) \cup {startId} |-> IF p = startId THEN 0 ELSE Infinity]

\* lines 59, 66
InitialPrevious(g) == [p \in KeySet(g) |-> Null]

\* Closer comparing with Infinity instead of shortestDistance: any unvisited
\* labelled key is taken while none is held
CloserThanNothing(d, shortestDistance) ==
  d # Infinity /\ shortestDistance = Infinity

\* Closer that prefers the greater finite label
CloserIsFarther(d, shortestDistance) ==
  d # Infinity /\ (shortestDistance = Infinity \/ d > shortestDistance)

\* line 80: the test of the selection scan
Closer(d, shortestDistance) == LessThan(d, shortestDistance)

\* lines 76-84: the first unvisited key with the least finite distance
RECURSIVE SelectScan(_, _, _, _, _, _)
SelectScan(keys, dist, vis, i, cur, shortestDistance) ==
  IF i > Len(keys)
  THEN cur
  ELSE IF keys[i] \notin vis /\ Closer(dist[keys[i]], shortestDistance)
       THEN SelectScan(keys, dist, vis, i + 1, keys[i], dist[keys[i]])
       ELSE SelectScan(keys, dist, vis, i + 1, cur, shortestDistance)

SelectCurrent(keys, dist, vis) == SelectScan(keys, dist, vis, 1, Null, Infinity)

\* Improves that labels a point once and never lowers the label
ImprovesOnlyUnlabelled(candidate, label) == label = Infinity

\* Improves that also replaces a label by a candidate of the same distance
ImprovesOrEqual(candidate, label) == LessThan(candidate, label) \/ candidate = label

\* line 98: the test of a relaxation
Improves(candidate, label) == LessThan(candidate, label)

\* RelaxNeighbor that lowers the labels and leaves previous as it was
RelaxNeighborForgetsPrevious(st, cur, neighbor) ==
  IF neighbor.id \in st.visited
  THEN st
  ELSE LET distance == Plus(st.distances[cur], neighbor.distance)
           time == Plus(st.times[cur], neighbor.time)
       IN IF Improves(distance, st.distances[neighbor.id])
          THEN [st EXCEPT !.distances[neighbor.id] = distance,
                          !.times[neighbor.id] = time]
          ELSE st

\* lines 93-102: one neighbor of current
RelaxNeighbor(st, cur, neighbor) ==
  IF neighbor.id \in st.visited
  THEN st
  ELSE LET distance == Plus(st.distances[cur], neighbor.distance)
           time == Plus(st.times[cur], neighbor.time)
       IN IF Improves(distance, st.distances[neighbor.id])
          THEN [st EXCEPT !.distances[neighbor.id] = distance,
                          !.times[neighbor.id] = time,
                          !.previous[neighbor.id] = cur]
          ELSE st

RECURSIVE RelaxNeighbors(_, _, _, _)
RelaxNeighbors(st, cur, neighbors, i) ==
  IF i > Len(neighbors)
  THEN st
  ELSE RelaxNeighbors(RelaxNeighbor(st, cur, neighbors[i]), cur, neighbors, i + 1)

\* lines 56-71: the labels before the first round
InitialSearch(g, startId) ==
  [distances |-> InitialLabels(g, startId),
   times |-> InitialLabels(g, startId),
   previous |-> InitialPrevious(g),
   visited |-> {}]

\* line 74 and line 87: does the while loop run another round?
LoopContinues(g, st, endId) ==
  /\ Cardinality(st.visited) < Len(Keys(g))
  /\ SelectCurrent(Keys(g), st.distances, st.visited) # Null
  /\ SelectCurrent(Keys(g), st.distances, st.visited) # endId

\* lines 89-103: mark current visited and relax its neighbors
SearchStep(g, adj, st) ==
  LET cur == SelectCurrent(Keys(g), st.distances, st.visited)
  IN RelaxNeighbors([st EXCEPT !.visited = @ \cup {cur}], cur, adj[cur], 1)

\* lines 74-104
RECURSIVE SearchLoop(_, _, _, _)
SearchLoop(g, adj, st, endId) ==
  IF LoopContinues(g, st, endId)
  THEN SearchLoop(g, adj, SearchStep(g, adj, st), endId)
  ELSE st

\* EndUnreachable testing for a missing label instead of Infinity
EndUnlabelled(dist, endId) == endId \notin DOMAIN dist

\* line 107: distances[endId] === Infinity (undefined is not Infinity)
EndUnreachable(dist, endId) == endId \in DOMAIN dist /\ dist[endId] = Infinity

\* line 115: previous[current], undefined for a key previous does not have
PreviousOf(prev, cur) == IF cur \in DOMAIN prev THEN prev[cur] ELSE Undefined

\* ------------------------------------------------------------ outcomes
\* What a call gives its caller: a Route, null, or a thrown TypeError; a
\* call that never returns has the kind "hang" in the pure form below.
RouteOf(p, d, t) == [kind |-> "route", path |-> p, totalDistance |-> d, totalTime |-> t]
NullResult == [kind |-> "null", path |-> <<>>, totalDistance |-> 0, totalTime |-> 0]
Thrown == [kind |-> "TypeError", path |-> <<>>, totalDistance |-> 0, totalTime |-> 0]
Hang == [kind |-> "hang", path |-> <<>>, totalDistance |-> 0, totalTime |-> 0]
NoResult == [kind |-> "none", path |-> <<>>, totalDistance |-> 0, totalTime |-> 0]

\* lines 110-116: the path walked back from cur; <<Undefined>> marks a walk
\* that reads undefined, after which current !== null holds forever
RECURSIVE WalkBack(_, _, _)
WalkBack(prev, cur, acc) ==
  IF cur = Null THEN acc
  ELSE IF cur = Undefined THEN <<Undefined>>
  ELSE WalkBack(prev, PreviousOf(prev, cur), <<cur>> \o acc)

\* lines 28-123 as a function of its arguments
FindShortestPath(g, startId, endId) ==
  LET built == BuildAdjacency(g)
  IN IF built.thrown THEN Thrown
     ELSE LET st == SearchLoop(g, built.list, InitialSearch(g, startId), endId)
          IN IF EndUnreachable(st.distances, endId) THEN NullResult
             ELSE LET p == WalkBack(st.previous, endId, <<>>)
                  IN IF p = <<Undefined>> THEN Hang
                     ELSE RouteOf(p, st.distances[endId], st.times[endId])

\* -------------------------------------------------------- findOptimalRoute
\* Dispatch without the single-destination branch of lines 134-136
DispatchWithoutSingle(destinations) ==
  IF Len(destinations) = 0 THEN "empty" ELSE "greedy"

\* Dispatch without the empty-list return of line 131
DispatchWithoutEmpty(destinations) ==
  IF Len(destinations) = 1 THEN "single" ELSE "greedy"

\* lines 131-136: which branch a destinations array takes
Dispatch(destinations) ==
  IF Len(destinations) = 0 THEN "empty"
  ELSE IF Len(destinations) = 1 THEN "single"
  ELSE "greedy"

\* line 142
StartRoute(startId) == RouteOf(<<startId>>, 0, 0)

\* Nearer with the comparison turned round
NearerIsFarther(route, shortestRoute) ==
  shortestRoute.kind = "none" \/ route.totalDistance > shortestRoute.totalDistance

\* Nearer that lets a later destination at the same distance win
NearerOrEqual(route, shortestRoute) ==
  shortestRoute.kind = "none" \/ route.totalDistance <= shortestRoute.totalDistance

\* line 155: does route replace shortestRoute?
Nearer(route, shortestRoute) ==
  shortestRoute.kind = "none" \/ route.totalDistance < shortestRoute.totalDistance

\* NearestScan that leaves the for loop at the first destination without a
\* route (break where line 152 has continue)
RECURSIVE NearestScanStopsAtNull(_, _, _, _, _, _)
NearestScanStopsAtNull(g, pos, remaining, i, shortestRoute, nearestDestination) ==
  IF i > Len(remaining)
  THEN [outcome |-> "scanned", shortestRoute |-> shortestRoute,
        nearestDestination |-> nearestDestination]
  ELSE LET route == FindShortestPath(g, pos, remaining[i])
       IN IF route.kind \in {"TypeError", "hang"}
          THEN [outcome |-> route.kind, shortestRoute |-> shortestRoute,
                nearestDestination |-> nearestDestination]
          ELSE IF route.kind = "null"
          THEN [outcome |-> "scanned", shortestRoute |-> shortestRoute,
                nearestDestination |-> nearestDestination]
          ELSE IF Nearer(route, shortestRoute)
          THEN NearestScanStopsAtNull(g, pos, remaining, i + 1, route, remaining[i])
          ELSE NearestScanStopsAtNull(g, pos, remaining, i + 1, shortestRoute,
                                      nearestDestination)

\* lines 146-159: the for loop over the remaining destinations. A call of
\* findShortestPath that throws or never returns ends the scan there.
RECURSIVE NearestScan(_, _, _, _, _, _)
NearestScan(g, pos, remaining, i, shortestRoute, nearestDestination) ==
  IF i > Len(remaining)
  THEN [outcome |-> "scanned", shortestRoute |-> shortestRoute,
        nearestDestination |-> nearestDestination]
  ELSE LET route == FindShortestPath(g, pos, remaining[i])
       IN IF route.kind \in {"TypeError", "hang"}
          THEN [outcome |-> route.kind, shortestRoute |-> shortestRoute,
                nearestDestination |-> nearestDestination]
          ELSE IF route.kind = "null"
          THEN NearestScan(g, pos, remaining, i + 1, shortestRoute, nearestDestination)
          ELSE IF Nearer(route, shortestRoute)
          THEN NearestScan(g, pos, remaining, i + 1, route, remaining[i])
          ELSE NearestScan(g, pos, remaining, i + 1, shortestRoute, nearestDestination)

Nearest(g, pos, remaining) == NearestScan(g, pos, remaining, 1, NoResult, Null)

\* Without that leaves the chosen destination in the list
WithoutNothing(remaining, nearestDestination) == remaining

\* line 172: remainingDestinations.filter(d => d !== nearestDestination)
Without(remaining, nearestDestination) ==
  SelectSeq(remaining, LAMBDA d : d # nearestDestination)

\* a loop that takes the chosen destination out of the caller's own array
SplicedForCaller(destinations, nearestDestination) ==
  Without(destinations, nearestDestination)

\* lines 141, 172: the loop works on a copy ([...destinations]) and filter
\* builds a new array, so the caller's array is what it was
KeptByCaller(destinations, nearestDestination) == destinations

\* Extend with the leg's distance added to both totals
ExtendTimeByDistance(totalRoute, shortestRoute) ==
  RouteOf(totalRoute.path \o Tail(shortestRoute.path),
          totalRoute.totalDistance + shortestRoute.totalDistance,
          totalRoute.totalTime + shortestRoute.totalDistance)

\* Extend that appends the whole leg, its first point included
ExtendKeepsJunction(totalRoute, shortestRoute) ==
  RouteOf(totalRoute.path \o shortestRoute.path,
          totalRoute.totalDistance + shortestRoute.totalDistance,
          totalRoute.totalTime + shortestRoute.totalTime)

\* lines 166-168: the leg appended without its first point
Extend(totalRoute, shortestRoute) ==
  RouteOf(totalRoute.path \o Tail(shortestRoute.path),
          totalRoute.totalDistance + shortestRoute.totalDistance,
          totalRoute.totalTime + shortestRoute.totalTime)

\* lines 145-175 from a given position, remaining list and route so far
RECURSIVE GreedyLoop(_, _, _, _)
GreedyLoop(g, pos, remaining, totalRoute) ==
  IF remaining = <<>>
  THEN totalRoute
  ELSE LET n == Nearest(g, pos, remaining)
       IN IF n.outcome = "TypeError" THEN Thrown
          ELSE IF n.outcome = "hang" THEN Hang
          ELSE IF n.shortestRoute.kind = "none" THEN totalRoute
          ELSE GreedyLoop(g, n.nearestDestination,
                          Without(remaining, n.nearestDestination),
                          Extend(totalRoute, n.shortestRoute))

\* lines 126-176 as a function of its arguments
FindOptimalRoute(g, startId, destinations) ==
  IF Dispatch(destinations) = "empty" THEN NullResult
  ELSE IF Dispatch(destinations) = "single"
  THEN FindShortestPath(g, startId, destinations[1])
  ELSE GreedyLoop(g, startId, destinations, StartRoute(startId))

\* ------------------------------------------------------ enumerated inputs
Points(n) == SubSeq(IdNames, 1, n)

Pos(id) == CHOOSE i \in 1..Len(IdNames) : IdNames[i] = id

\* every connection between known points, both directions and self-loops
ConnsOver(ids) ==
  {Conn(f, t, d, m) : f \in ids, t \in ids, d \in 0..MaxDist, m \in 0..MaxTime}

\* connections with an end that is no key of graph.points; enumerated for
\* the graphs of fewer than MaxPoints points
Dangling(ids) ==
  IF Cardinality(ids) = MaxPoints THEN {}
  ELSE {Conn(f, t, MaxDist, MaxTime) : f \in {AbsentId}, t \in ids \cup {AbsentId}}
         \cup {Conn(f, t, MaxDist, MaxTime) : f \in ids, t \in {AbsentId}}

\* connections between two different points, stored from the earlier key
Forward(ids) == {c \in ConnsOver(ids) : Pos(c.from) < Pos(c.to)}

\* no two connections of c join the same pair of points
Simple(c) ==
  \A i, j \in DOMAIN c :
     i # j => <<c[i].from, c[i].to>> # <<c[j].from, c[j].to>>

SeqsUpTo(S, n) == UNION {[1..k -> S] : k \in 0..n}

\* The enumerated graphs over the first n ids: every list of fewer than
\* MaxConns connections (parallel ones, self-loops, dangling ends), and
\* every list of MaxConns forward connections that join MaxConns different
\* pairs of points, in every order.
GraphsOver(n) ==
  LET ids == Range(Points(n))
  IN {[points |-> Points(n), connections |-> c] :
        c \in SeqsUpTo(ConnsOver(ids) \cup Dangling(ids), MaxConns - 1)
              \cup {f \in [1..MaxConns -> Forward(ids)] : Simple(f)}}

SmallGraphs == UNION {GraphsOver(n) : n \in 0..MaxPoints}

Graphs == SmallGraphs \cup {sampleGraph}

\* ids a caller may pass: the keys of the graph and, except on the
\* enumerated graphs of MaxPoints points, one id that is no key
CallIds(g) ==
  KeySet(g) \cup (IF Len(g.points) = MaxPoints THEN {} ELSE {AbsentId})

\* ------------------------------------------------------------------ state
VARIABLES
  graph,                  \* the Graph the caller holds
  pc,                     \* idle | search | reconstruct | greedy | hang | done
  call,                   \* the running call: fn, startId, endId, destinations
  adjacencyList,          \* findShortestPath locals
  distances,
  times,
  previous,
  visited,
  path,
  current,
  currentPosition,        \* findOptimalRoute locals
  remainingDestinations,
  totalRoute,
  result                  \* what the finished call gave its caller

spVars == <<adjacencyList, distances, times, previous, visited, path, current>>
orVars == <<currentPosition, remainingDestinations, totalRoute>>
vars == <<graph, pc, call, adjacencyList, distances, times, previous, visited,
          path, current, currentPosition, remainingDestinations, totalRoute, result>>

NoCall == [fn |-> "none", startId |-> Null, endId |-> Null, destinations |-> <<>>]

Empty == [p \in {} |-> Null]

SpCleared ==
  /\ adjacencyList = Empty /\ distances = Empty /\ times = Empty
  /\ previous = Empty /\ visited = {} /\ path = <<>> /\ current = Null

OrCleared ==
  /\ currentPosition = Null /\ remainingDestinations = <<>> /\ totalRoute = NoResult

\* ------------------------------------------------------- the Map component
\* src/src/components/Map.tsx: the state of one mounted Map and of the
\* mapboxgl.Map it created. A handler runs to its end, the component
\* renders again and its effects run, all before the next event.
MaxClicks == 2
MaxCoord == 1

\* values of the mapboxToken prop; "" is the missing token
Tokens == {"", "pk.a", "pk.b"}

VARIABLES
  mapboxToken,            \* the prop
  onLocationSelect,       \* the prop: "handleLocationSelect" or undefined
  mapReady,               \* useState(false)
  selectionMode,          \* useState(null): "start" | "destination" | null
  map,                    \* map.current: NoMap for null, or the mapboxgl.Map
                          \* of the last run of the initialisation effect
  toast,                  \* the title of the last toast
  clicks,                 \* the click events the map has delivered
  selected                \* the calls of onLocationSelect made so far

mapVars == <<mapboxToken, onLocationSelect, mapReady, selectionMode, map,
             toast, clicks, selected>>

\* lines 42-92: the mapboxgl.Map a run of the effect creates. Its click
\* handler is a closure of that render: it holds the selectionMode and the
\* onLocationSelect the component had when the effect ran.
NewMap(mode, callback) ==
  [created |-> TRUE, selectionMode |-> mode, onLocationSelect |-> callback,
   loaded |-> FALSE, removed |-> FALSE, cursor |-> ""]

\* line 25: map.current before any map is created (useRef(null))
NoMap ==
  [created |-> FALSE, selectionMode |-> Null, onLocationSelect |-> Undefined,
   loaded |-> FALSE, removed |-> FALSE, cursor |-> ""]

\* lines 32-123: the initialisation effect for the token of this render:
\* the cleanup of the previous run (newMap.remove()) and, with a token, a
\* new map; map.current keeps the removed map when there is no token
InitializeMap(old, token, mode, callback) ==
  IF token # "" THEN NewMap(mode, callback)
  ELSE IF ~old.created THEN NoMap
  ELSE [old EXCEPT !.removed = TRUE]

\* lines 126-134: the cursor effect, run when selectionMode has changed
CursorFor(mode) == IF mode # Null THEN "crosshair" ELSE ""

\* no Map is mounted
MapUnmounted ==
  /\ mapboxToken = "" /\ onLocationSelect = Undefined
  /\ mapReady = FALSE /\ selectionMode = Null /\ map = NoMap
  /\ toast = Null /\ clicks = <<>> /\ selected = <<>>

\* lines 24-29, 32-123: a Map has mounted and its effects have run
MapInit ==
  /\ mapboxToken \in Tokens
  /\ onLocationSelect \in {"handleLocationSelect", Undefined}
  /\ mapReady = FALSE
  /\ selectionMode = Null
  /\ map = InitializeMap(NoMap, mapboxToken, Null, onLocationSelect)
  /\ toast = Null /\ clicks = <<>> /\ selected = <<>>
  /\ graph = sampleGraph /\ pc = "idle" /\ call = NoCall
  /\ SpCleared /\ OrCleared /\ result = NoResult

\* lines 94-99: the map's load event
MapLoad ==
  /\ map.created /\ ~map.removed /\ ~map.loaded
  /\ map' = [map EXCEPT !.loaded = TRUE]
  /\ mapReady' = TRUE
  /\ UNCHANGED <<mapboxToken, onLocationSelect, selectionMode, toast, clicks, selected>>

\* lines 372-388: the two buttons are rendered
ControlsShown == mapboxToken # "" /\ mapReady

\* a press of one of the two buttons: setSelectionMode(mode), the toast,
\* and the cursor effect when the mode has changed
Press(mode, title) ==
  /\ ControlsShown
  /\ selectionMode' = mode
  /\ toast' = title
  /\ map' = IF map.created /\ selectionMode # mode
            THEN [map EXCEPT !.cursor = CursorFor(mode)] ELSE map
  /\ UNCHANGED <<mapboxToken, onLocationSelect, mapReady, clicks, selected>>

\* lines 351-357
handleSetStartingPoint == Press("start", "Select Starting Point")

\* lines 359-365
handleAddDestination == Press("destination", "Select Destination")

\* lines 75-92: a click on the map. The handler tests the selectionMode and
\* the onLocationSelect of its own closure.
MapClick ==
  /\ map.created /\ ~map.removed
  /\ Len(clicks) < MaxClicks
  /\ \E lng \in 0..MaxCoord, lat \in 0..MaxCoord :
       /\ clicks' = Append(clicks, [lng |-> lng, lat |-> lat])
       /\ IF map.selectionMode # Null /\ map.onLocationSelect # Undefined
          THEN /\ selected' = Append(selected, [lng |-> lng, lat |-> lat,
                                                type |-> map.selectionMode])
               /\ selectionMode' = Null
               /\ map' = [map EXCEPT !.cursor = ""]
               /\ toast' = "Location Selected"
          ELSE UNCHANGED <<selected, selectionMode, map, toast>>
  /\ UNCHANGED <<mapboxToken, onLocationSelect, mapReady>>

\* the parent renders the Map with another token (line 123: the effect
\* depends on mapboxToken alone)
SetMapboxToken ==
  /\ \E token \in Tokens \ {mapboxToken} :
       /\ mapboxToken' = token
       /\ map' = InitializeMap(map, token, selectionMode, onLocationSelect)
  /\ UNCHANGED <<onLocationSelect, mapReady, selectionMode, toast, clicks, selected>>

MapNext ==
  \/ MapLoad /\ UNCHANGED vars
  \/ handleSetStartingPoint /\ UNCHANGED vars
  \/ handleAddDestination /\ UNCHANGED vars
  \/ MapClick /\ UNCHANGED vars
  \/ SetMapboxToken /\ UNCHANGED vars

MapSpec == MapInit /\ [][MapNext]_<<vars, mapVars>>

\* ------------------------------------------------ the route finder's steps

Init ==
  /\ graph \in Graphs
  /\ pc = "idle"
  /\ call = NoCall
  /\ SpCleared
  /\ OrCleared
  /\ result = NoResult
  /\ MapUnmounted

\* lines 33-71: the adjacency list is built and the labels are set
EnterShortestPath(startId, endId) ==
  LET built == BuildAdjacency(graph)
      st == InitialSearch(graph, startId)
  IN IF built.thrown
     THEN /\ pc' = "done"
          /\ result' = Thrown
          /\ UNCHANGED spVars
     ELSE /\ pc' = "search"
          /\ adjacencyList' = built.list
          /\ distances' = st.distances
          /\ times' = st.times
          /\ previous' = st.previous
          /\ visited' = st.visited
          /\ UNCHANGED <<path, current, result>>

\* findShortestPath(graph, startId, endId) is called
CallFindShortestPath ==
  /\ pc = "idle"
  /\ \E startId \in CallIds(graph), endId \in CallIds(graph) :
       /\ call' = [fn |-> "findShortestPath", startId |-> startId,
                   endId |-> endId, destinations |-> <<>>]
       /\ EnterShortestPath(startId, endId)
  /\ UNCHANGED <<graph, orVars>>

Labels == [distances |-> distances, times |-> times,
           previous |-> previous, visited |-> visited]

\* lines 74-104: one round of the while loop that stays in the loop
SearchRound ==
  /\ pc = "search"
  /\ LoopContinues(graph, Labels, call.endId)
  /\ LET st == SearchStep(graph, adjacencyList, Labels)
     IN /\ distances' = st.distances
        /\ times' = st.times
        /\ previous' = st.previous
        /\ visited' = st.visited
  /\ UNCHANGED <<graph, pc, call, adjacencyList, path, current, orVars, result>>

\* lines 74, 87, 107-111: the loop is left; null, or the walk back starts
SearchExit ==
  /\ pc = "search"
  /\ ~LoopContinues(graph, Labels, call.endId)
  /\ IF EndUnreachable(distances, call.endId)
     THEN /\ pc' = "done"
          /\ result' = NullResult
          /\ UNCHANGED <<path, current>>
     ELSE /\ pc' = "reconstruct"
          /\ path' = <<>>
          /\ current' = call.endId
          /\ UNCHANGED result
  /\ UNCHANGED <<graph, call, adjacencyList, distances, times, previous, visited, orVars>>

Undefineds(p) == Cardinality({i \in 1..Len(p) : p[i] = Undefined})

\* lines 113-116: one round of the walk back (current !== null)
ReconstructStep ==
  /\ pc = "reconstruct"
  /\ current # Null
  /\ Undefineds(path) < MaxUnwind
  /\ path' = <<current>> \o path
  /\ current' = PreviousOf(previous, current)
  /\ UNCHANGED <<graph, pc, call, adjacencyList, distances, times, previous,
                 visited, orVars, result>>

\* lines 118-122: the Route is returned
ReconstructReturn ==
  /\ pc = "reconstruct"
  /\ current = Null
  /\ pc' = "done"
  /\ result' = RouteOf(path, distances[call.endId], times[call.endId])
  /\ UNCHANGED <<graph, call, spVars, orVars>>

\* lines 131-142: findOptimalRoute(graph, startId, destinations) is called
CallFindOptimalRoute ==
  /\ pc = "idle"
  /\ \E startId \in CallIds(graph), destinations \in SeqsUpTo(CallIds(graph), MaxDests) :
       /\ call' = [fn |-> "findOptimalRoute", startId |-> startId,
                   endId |-> IF Dispatch(destinations) = "single"
                             THEN destinations[1] ELSE Null,
                   destinations |-> destinations]
       /\ IF Dispatch(destinations) = "empty"
          THEN /\ pc' = "done"
               /\ result' = NullResult
               /\ UNCHANGED <<spVars, orVars>>
          ELSE IF Dispatch(destinations) = "single"
          THEN /\ EnterShortestPath(startId, destinations[1])
               /\ UNCHANGED orVars
          ELSE /\ pc' = "greedy"
               /\ currentPosition' = startId
               /\ remainingDestinations' = destinations
               /\ totalRoute' = StartRoute(startId)
               /\ UNCHANGED <<spVars, result>>
  /\ UNCHANGED graph

\* lines 145-173: one round of the greedy loop
GreedyRound ==
  /\ pc = "greedy"
  /\ remainingDestinations # <<>>
  /\ LET n == Nearest(graph, currentPosition, remainingDestinations)
     IN IF n.outcome = "TypeError"
        THEN /\ pc' = "done" /\ result' = Thrown /\ UNCHANGED orVars
        ELSE IF n.outcome = "hang"
        THEN /\ pc' = "hang" /\ UNCHANGED <<orVars, result>>
        ELSE IF n.shortestRoute.kind = "none"
        THEN /\ pc' = "done" /\ result' = totalRoute /\ UNCHANGED orVars
        ELSE /\ totalRoute' = Extend(totalRoute, n.shortestRoute)
             /\ currentPosition' = n.nearestDestination
             /\ remainingDestinations' =
                  Without(remainingDestinations, n.nearestDestination)
             /\ UNCHANGED <<pc, result>>
  /\ call' = [call EXCEPT !.destinations =
                KeptByCaller(@, Nearest(graph, currentPosition,
                                        remainingDestinations).nearestDestination)]
  /\ UNCHANGED <<graph, spVars>>

\* lines 145, 175: nothing remains, totalRoute is returned
GreedyReturn ==
  /\ pc = "greedy"
  /\ remainingDestinations = <<>>
  /\ pc' = "done"
  /\ result' = totalRoute
  /\ UNCHANGED <<graph, call, spVars, orVars>>

\* the caller has the result; the locals of the call are gone
Return ==
  /\ pc = "done"
  /\ pc' = "idle"
  /\ call' = NoCall
  /\ adjacencyList' = Empty /\ distances' = Empty /\ times' = Empty
  /\ previous' = Empty /\ visited' = {} /\ path' = <<>> /\ current' = Null
  /\ currentPosition' = Null /\ remainingDestinations' = <<>>
  /\ totalRoute' = NoResult
  /\ result' = NoResult
  /\ UNCHANGED graph

Next ==
  \/ CallFindShortestPath /\ UNCHANGED mapVars
  \/ SearchRound /\ UNCHANGED mapVars
  \/ SearchExit /\ UNCHANGED mapVars
  \/ ReconstructStep /\ UNCHANGED mapVars
  \/ ReconstructReturn /\ UNCHANGED mapVars
  \/ CallFindOptimalRoute /\ UNCHANGED mapVars
  \/ GreedyRound /\ UNCHANGED mapVars
  \/ GreedyReturn /\ UNCHANGED mapVars
  \/ Return /\ UNCHANGED mapVars

Spec == Init /\ [][Next]_vars

\* ---------------------------------------------------------------- reference
\* What the claims compare the code with: distances by repeated relaxation
\* over all connections, and the sums a path can have.
Finite(S) == {x \in S : x # Infinity}

Least(S) == IF Finite(S) = {} THEN Infinity
            ELSE CHOOSE x \in Finite(S) : \A y \in Finite(S) : x <= y

Into(g, D, p) ==
  {Plus(D[g.connections[i].from], g.connections[i].distance) :
      i \in {j \in 1..Len(g.connections) : g.connections[j].to = p}}
  \cup
  {Plus(D[g.connections[i].to], g.connections[i].distance) :
      i \in {j \in 1..Len(g.connections) : g.connections[j].from = p}}

RECURSIVE Lightest(_, _, _)
Lightest(g, D, k) ==
  IF k = 0 THEN D
  ELSE LET N == [p \in KeySet(g) |-> Least({D[p]} \cup Into(g, D, p))]
       IN IF N = D THEN D ELSE Lightest(g, N, k - 1)

\* the least total distance of a walk from a to b, Infinity when there is none
LeastDistance(g, a, b) ==
  Lightest(g, [p \in KeySet(g) |-> IF p = a THEN 0 ELSE Infinity], Len(g.points))[b]

Joined(g, a, b) == LeastDistance(g, a, b) # Infinity

\* the connections that join u and v, in either stored direction
Between(g, u, v) ==
  {i \in 1..Len(g.connections) :
      \/ g.connections[i].from = u /\ g.connections[i].to = v
      \/ g.connections[i].from = v /\ g.connections[i].to = u}

\* the total distances p can have, one connection chosen per consecutive pair
RECURSIVE PathSums(_, _)
PathSums(g, p) ==
  IF Len(p) <= 1 THEN {0}
  ELSE {g.connections[i].distance + s :
           i \in Between(g, p[1], p[2]), s \in PathSums(g, Tail(p))}

IsShortestPathCall == call.fn = "findShortestPath"
IsOptimalRouteCall == call.fn = "findOptimalRoute"
KnownEnds == call.startId \in KeySet(graph) /\ call.endId \in KeySet(graph)
KnownDestinations ==
  /\ call.startId \in KeySet(graph)
  /\ \A i \in 1..Len(call.destinations) : call.destinations[i] \in KeySet(graph)
NoneReachable ==
  \A i \in 1..Len(call.destinations) :
     ~Joined(graph, call.startId, call.destinations[i])

\* ------------------------------------------------------------------ claims

\* C1: on a well-formed graph with non-negative distances, for points a and
\* b joined by some path, findShortestPath returns a route from a to b whose
\* totalDistance is the sum of connection distances along its consecutive
\* pairs, and no path from a to b has a strictly lower total distance.
C1_ShortestPathIsLeast ==
  (IsShortestPathCall /\ WellFormed(graph) /\ KnownEnds
     /\ Joined(graph, call.startId, call.endId))
  => /\ pc \in {"search", "reconstruct", "done"}
     /\ current # Undefined
     /\ pc = "done" =>
          /\ result.kind = "route"
          /\ result.path[1] = call.startId
          /\ result.path[Len(result.path)] = call.endId
          /\ result.totalDistance \in PathSums(graph, result.path)
          /\ ~LessThan(LeastDistance(graph, call.startId, call.endId),
                       result.totalDistance)

\* C1 witness: a returned route of two connections that beats a direct
\* connection between its ends
C1_Witness ==
  /\ pc = "done" /\ IsShortestPathCall /\ WellFormed(graph)
  /\ result.kind = "route" /\ Len(result.path) = 3
  /\ \E i \in Between(graph, call.startId, call.endId) :
        graph.connections[i].distance > result.totalDistance

C3_UnreachableIsNull ==
  (IsShortestPathCall /\ WellFormed(graph) /\ KnownEnds
     /\ ~Joined(graph, call.startId, call.endId))
  => /\ pc \in {"search", "done"}
     /\ pc = "done" => result = NullResult

\* C3 witness: null returned after a search that visited other points
C3_Witness ==
  /\ pc = "done" /\ IsShortestPathCall /\ WellFormed(graph) /\ KnownEnds
  /\ ~Joined(graph, call.startId, call.endId)
  /\ result = NullResult
  /\ Cardinality(visited) >= 2

\* C4: findShortestPath with a startId or endId that is no key of
\* graph.points terminates and reports a failure: it never walks back from
\* endId as if a path had been found, and what it returns is no Route.
C4_InvalidEndpointFails ==
  (IsShortestPathCall /\ ~KnownEnds)
  => /\ pc # "reconstruct"
     /\ pc = "done" => result.kind # "route"

\* C5: findOptimalRoute(graph, start, [d]) has the outcome of
\* findShortestPath(graph, start, d): the same Route, null or TypeError, and
\* it returns only if findShortestPath does.
C5_SingleDestinationDelegates ==
  (IsOptimalRouteCall /\ Len(call.destinations) = 1)
  => /\ pc # "greedy"
     /\ pc = "done" =>
          result = FindShortestPath(graph, call.startId, call.destinations[1])

\* C5 witness: a single-destination call that returned a route of two legs
C5_Witness ==
  /\ pc = "done" /\ IsOptimalRouteCall /\ Len(call.destinations) = 1
  /\ result.kind = "route" /\ Len(result.path) = 3

\* C6: findOptimalRoute(graph, start, [d, d]) gives what
\* findOptimalRoute(graph, start, [d]) gives, for d reachable from start or
\* not (here on a well-formed graph, start and d among its points).
C6_DuplicateCollapses ==
  (pc = "done" /\ IsOptimalRouteCall /\ Len(call.destinations) = 2
     /\ call.destinations[1] = call.destinations[2]
     /\ WellFormed(graph) /\ KnownDestinations)
  => result = FindOptimalRoute(graph, call.startId, <<call.destinations[1]>>)

\* C7: when every destination of a list of length >= 1 is unreachable from
\* startId, findOptimalRoute returns the not-found failure and no Route.
C7_NoneReachableIsNotFound ==
  (pc = "done" /\ IsOptimalRouteCall /\ Len(call.destinations) >= 1
     /\ WellFormed(graph) /\ KnownDestinations /\ NoneReachable)
  => result = NullResult

\* C8: findOptimalRoute with an empty destination list fails (null) for
\* every graph and start id, without building an adjacency list or running
\* any search.
C8_EmptyListFails ==
  (IsOptimalRouteCall /\ call.destinations = <<>>)
  => /\ pc = "done"
     /\ result = NullResult
     /\ SpCleared
     /\ OrCleared

\* C8 witness: the empty list answered on a graph with a dangling connection
C8_Witness ==
  /\ pc = "done" /\ IsOptimalRouteCall /\ call.destinations = <<>>
  /\ ~WellFormed(graph)
  /\ result = NullResult

\* C9: the outcome findOptimalRoute gives when no destination can be
\* reached differs from the outcome it gives for an empty destination list.
C9_FailureKindsDiffer ==
  (pc = "done" /\ IsOptimalRouteCall /\ Len(call.destinations) >= 1
     /\ WellFormed(graph) /\ KnownDestinations /\ NoneReachable)
  => result # FindOptimalRoute(graph, call.startId, <<>>)

\* C10: on a graph with a connection whose from or to is no key of
\* graph.points, building the adjacency list ends in a reported result
\* value, never in a thrown TypeError.
C10_MalformedGraphReported ==
  (pc = "done" /\ ~WellFormed(graph)
     /\ (IsShortestPathCall \/ Len(call.destinations) >= 1))
  => result.kind # "TypeError"

\* C11: findOptimalRoute with two or more destinations, on a well-formed
\* graph, with a startId or some destination id that is no key of
\* graph.points, terminates with a failure outcome: it never stays in a
\* call that does not return, and what it returns is no Route.
C11_UnknownIdFails ==
  (IsOptimalRouteCall /\ Len(call.destinations) >= 2
     /\ WellFormed(graph) /\ ~KnownDestinations)
  => /\ pc # "hang"
     /\ pc = "done" => result.kind # "route"

\* C12: on a well-formed graph, for points a and b joined by some path,
\* findShortestPath(graph, a, b) and findShortestPath(graph, b, a) both
\* return a Route and the two totalDistance values are equal.
C12_DistanceSymmetric ==
  (pc = "done" /\ IsShortestPathCall /\ WellFormed(graph) /\ KnownEnds
     /\ Joined(graph, call.startId, call.endId))
  => /\ result.kind = "route"
     /\ FindShortestPath(graph, call.endId, call.startId).kind = "route"
     /\ result.totalDistance =
          FindShortestPath(graph, call.endId, call.startId).totalDistance

\* C12 witness: a route of two connections between two different points,
\* answered in both directions
C12_Witness ==
  /\ pc = "done" /\ IsShortestPathCall /\ WellFormed(graph)
  /\ result.kind = "route" /\ Len(result.path) = 3
  /\ result.totalDistance > 0
  /\ FindShortestPath(graph, call.endId, call.startId).kind = "route"

\* what the running call returns, as a function of its arguments alone
Answer ==
  IF IsShortestPathCall
  THEN FindShortestPath(graph, call.startId, call.endId)
  ELSE FindOptimalRoute(graph, call.startId, call.destinations)

\* C13: no step of findShortestPath or findOptimalRoute changes graph.points
\* or graph.connections, none changes the arguments of the running call (the
\* caller's destinations array among them), and whenever a call returns, what
\* it returns is the function of its own arguments, whatever calls ran before.
C13_PureCalls ==
  /\ [][/\ graph' = graph
        /\ pc # "idle" /\ pc' # "idle" => call' = call]_vars
  /\ [](/\ pc = "done" => result = Answer
        /\ pc = "hang" => Answer.kind = "hang")

\* C13 witness: a greedy call of two destinations has returned a route that
\* visits both, the working list is empty and the caller's list is not
C13_Witness ==
  /\ pc = "done" /\ IsOptimalRouteCall
  /\ Len(call.destinations) = 2 /\ call.destinations[1] # call.destinations[2]
  /\ remainingDestinations = <<>>
  /\ result.kind = "route" /\ Len(result.path) >= 3

\* the <<distance, time>> totals p can have, one connection chosen per
\* consecutive pair of points
RECURSIVE PathTotals(_, _)
PathTotals(g, p) ==
  IF Len(p) <= 1 THEN {<<0, 0>>}
  ELSE {<<g.connections[i].distance + s[1], g.connections[i].time + s[2]>> :
           i \in Between(g, p[1], p[2]), s \in PathTotals(g, Tail(p))}

\* C14: every Route returned by findShortestPath or findOptimalRoute has
\* totals that are sums over traversed connections: one connection can be
\* chosen for each consecutive pair of points of the path so that
\* totalDistance is the sum of their distances and totalTime the sum of the
\* same connections' times.
C14_TotalsAreSums ==
  (pc = "done" /\ result.kind = "route")
  => <<result.totalDistance, result.totalTime>> \in PathTotals(graph, result.path)

\* C14 witness: a greedy route of two legs whose distance and time differ
C14_Witness ==
  /\ pc = "done" /\ IsOptimalRouteCall /\ Len(call.destinations) = 2
  /\ result.kind = "route" /\ Len(result.path) >= 3
  /\ result.totalDistance > 0
  /\ result.totalTime # result.totalDistance

\* the sample query of section 8: from A to the destinations D and Y
SampleRouteCall ==
  /\ graph = sampleGraph /\ IsOptimalRouteCall
  /\ call.startId = "A" /\ call.destinations = <<"D", "Y">>

\* C15: on sampleGraph, findOptimalRoute from "A" with destinations
\* <<"D", "Y">> goes to Y first (1.2 from A against 1.9 for D; distances
\* here are in tenths), then from Y to D, and returns the path A, E, Y, C, D
\* with totalDistance 2.7 and totalTime 19.
C15_SampleRoute ==
  SampleRouteCall
  => /\ FindShortestPath(graph, "A", "Y").totalDistance = 12
     /\ FindShortestPath(graph, "A", "D").totalDistance = 19
     /\ pc \in {"greedy", "done"}
     /\ pc = "greedy" =>
          \/ /\ currentPosition = "A" /\ remainingDestinations = <<"D", "Y">>
             /\ totalRoute = StartRoute("A")
          \/ /\ currentPosition = "Y" /\ remainingDestinations = <<"D">>
             /\ totalRoute = RouteOf(<<"A", "E", "Y">>, 12, 8)
          \/ /\ currentPosition = "D" /\ remainingDestinations = <<>>
             /\ totalRoute = RouteOf(<<"A", "E", "Y", "C", "D">>, 27, 19)
     /\ pc = "done" => result = RouteOf(<<"A", "E", "Y", "C", "D">>, 27, 19)

\* C15 witness: the sample query has returned
C15_Witness == SampleRouteCall /\ pc = "done" /\ result.kind = "route"

\* C16: on sampleGraph, findShortestPath from "A" to "Y" returns the path
\* A, E, Y with totalDistance 1.2 (12 tenths) and totalTime 8.
C16_SamplePath ==
  (graph = sampleGraph /\ IsShortestPathCall /\ pc = "done"
     /\ call.startId = "A" /\ call.endId = "Y")
  => result = RouteOf(<<"A", "E", "Y">>, 12, 8)

\* C16 witness: that query has returned
C16_Witness ==
  /\ graph = sampleGraph /\ IsShortestPathCall /\ pc = "done"
  /\ call.startId = "A" /\ call.endId = "Y" /\ result.kind = "route"

\* the positions in the remaining list of the destinations that some path
\* joins to the current position
ReachableRemaining ==
  {i \in 1..Len(remainingDestinations) :
      Joined(graph, currentPosition, remainingDestinations[i])}

\* chosen is the first of the reachable remaining destinations at the least
\* distance from the current position
FirstNearest(chosen) ==
  \E k \in ReachableRemaining :
     /\ remainingDestinations[k] = chosen
     /\ \A j \in ReachableRemaining :
          LET dj == LeastDistance(graph, currentPosition, remainingDestinations[j])
              dk == LeastDistance(graph, currentPosition, remainingDestinations[k])
          IN /\ dj >= dk
             /\ j < k => dj > dk

\* a round of the greedy loop that chose a destination and went on
RoundAdvances ==
  /\ pc = "greedy" /\ pc' = "greedy"
  /\ remainingDestinations' # remainingDestinations

\* C17: in every iteration of the greedy loop the destination chosen is one
\* whose shortest-path distance from the current position is the least over
\* the remaining reachable destinations, and among several at that distance
\* it is the one that comes first in the remaining list.
C17_GreedyChoosesNearest ==
  [][RoundAdvances => FirstNearest(currentPosition')]_vars

\* C17 witness: two different destinations were at the same distance from
\* the start and the loop went to the one listed first
C17_Witness ==
  /\ pc = "greedy" /\ Len(call.destinations) = 2
  /\ WellFormed(graph) /\ KnownDestinations
  /\ call.destinations[1] # call.destinations[2]
  /\ Joined(graph, call.startId, call.destinations[1])
  /\ LeastDistance(graph, call.startId, call.destinations[1])
       = LeastDistance(graph, call.startId, call.destinations[2])
  /\ Len(remainingDestinations) = 1
  /\ currentPosition = call.destinations[1]

\* a findOptimalRoute call on a well-formed graph whose ids are all points
\* of the graph, with two or more distinct destinations of which at least
\* one is joined to startId
SomeReachableCall ==
  /\ IsOptimalRouteCall /\ WellFormed(graph) /\ KnownDestinations
  /\ Cardinality(Range(call.destinations)) >= 2
  /\ \E d \in Range(call.destinations) : Joined(graph, call.startId, d)

Leg(chosen) == FindShortestPath(graph, currentPosition, chosen)

\* C19: after every iteration of the greedy loop the accumulated route
\* starts with startId and ends at the current position, no point stands
\* twice in a row in it (the junction of two legs appears once), and an
\* iteration adds to the route the leg to the chosen destination without
\* its first point, adds to totalDistance the shortest-path distance of
\* that leg and to totalTime its time, makes the chosen destination the
\* current position and leaves no occurrence of it in the remaining list.
C19_GreedyLoopInvariant ==
  /\ [](pc = "greedy"
        => /\ totalRoute.path[1] = call.startId
           /\ totalRoute.path[Len(totalRoute.path)] = currentPosition
           /\ \A i \in 1..(Len(totalRoute.path) - 1) :
                totalRoute.path[i] # totalRoute.path[i + 1])
  /\ [][RoundAdvances
        => /\ totalRoute'.path = totalRoute.path \o Tail(Leg(currentPosition').path)
           /\ totalRoute'.totalDistance = totalRoute.totalDistance
                + LeastDistance(graph, currentPosition, currentPosition')
           /\ totalRoute'.totalTime = totalRoute.totalTime
                + Leg(currentPosition').totalTime
           /\ currentPosition' \notin Range(remainingDestinations')]_vars

\* C19 witness: two iterations have each added a leg of at least one
\* connection and nothing remains
C19_Witness ==
  /\ pc = "greedy" /\ remainingDestinations = <<>>
  /\ Cardinality(Range(call.destinations) \cup {call.startId}) = 3
  /\ Len(totalRoute.path) >= 3 /\ totalRoute.totalDistance > 0

\* g with the time of every connection set to 0
ZeroTimes(g) ==
  [g EXCEPT !.connections =
     [i \in DOMAIN g.connections |-> [g.connections[i] EXCEPT !.time = 0]]]

\* the paths of at most MaxPoints points from a to b
PathsBetween(g, a, b) ==
  {p \in SeqsUpTo(KeySet(g), MaxPoints) : p # <<>> /\ p[1] = a /\ p[Len(p)] = b}

\* C20: time never influences the path findShortestPath returns. While the
\* search runs, a point's distance, time and predecessor change only in a
\* round that makes its distance strictly lower, and the call returns the
\* path and the totalDistance it returns on the same graph with every time
\* set to 0.
C20_TimeIsPassive ==
  /\ [][pc = "search"
        => \A p \in DOMAIN distances :
             (\/ distances'[p] # distances[p]
              \/ times'[p] # times[p]
              \/ PreviousOf(previous', p) # PreviousOf(previous, p))
             => LessThan(distances'[p], distances[p])]_vars
  /\ [](pc = "done" /\ IsShortestPathCall
        => LET timeless == FindShortestPath(ZeroTimes(graph), call.startId, call.endId)
           IN /\ timeless.kind = result.kind
              /\ timeless.path = result.path
              /\ timeless.totalDistance = result.totalDistance)

\* C20 witness: the returned path has the least distance, and another way
\* between the same two points has that distance and a lower time
C20_Witness ==
  /\ pc = "done" /\ IsShortestPathCall /\ WellFormed(graph) /\ KnownEnds
  /\ Len(graph.points) <= MaxPoints
  /\ result.kind = "route"
  /\ result.totalDistance = LeastDistance(graph, call.startId, call.endId)
  /\ \E p \in PathsBetween(graph, call.startId, call.endId) :
       \E tot \in PathTotals(graph, p) :
          tot[1] = result.totalDistance /\ tot[2] < result.totalTime

\* how many positions of the list s hold e
Count(s, e) == Cardinality({i \in 1..Len(s) : s[i] = e})

\* how many entries a point's list must hold for the neighbour q at distance
\* d and time m: one for each connection from p to q, one for each from q to p
Expected(g, p, q, d, m) ==
  Count(g.connections, Conn(p, q, d, m)) + Count(g.connections, Conn(q, p, d, m))

RECURSIVE SumOver(_, _)
SumOver(f, S) ==
  IF S = {} THEN 0
  ELSE LET x == CHOOSE y \in S : TRUE IN f[x] + SumOver(f, S \ {x})

\* C21: for a well-formed graph the adjacency index built by
\* findShortestPath has an entry for every key of graph.points, each
\* connection stands in it exactly twice, under from and under to with the
\* same distance and time (so an isolated point has an empty list and equal
\* parallel connections are separate entries), and the number of entries is
\* twice the number of connections.
C21_AdjacencyIndex ==
  (WellFormed(graph) /\ pc \in {"search", "reconstruct"})
  => /\ DOMAIN adjacencyList = KeySet(graph)
     /\ \A p \in KeySet(graph) :
          /\ \A i \in 1..Len(adjacencyList[p]) :
               LET e == adjacencyList[p][i]
               IN Count(adjacencyList[p], e)
                    = Expected(graph, p, e.id, e.distance, e.time)
          /\ \A i \in 1..Len(graph.connections) :
               LET c == graph.connections[i]
               IN /\ c.from = p =>
                       Neighbor(c.to, c.distance, c.time) \in Range(adjacencyList[p])
                  /\ c.to = p =>
                       Neighbor(c.from, c.distance, c.time) \in Range(adjacencyList[p])
     /\ SumOver([p \in KeySet(graph) |-> Len(adjacencyList[p])], KeySet(graph))
          = 2 * Len(graph.connections)

\* C21 witness: an index with an isolated point and two equal parallel
\* connections kept apart
C21_Witness ==
  /\ WellFormed(graph) /\ pc = "search"
  /\ \E p \in KeySet(graph) : adjacencyList[p] = <<>>
  /\ \E p \in KeySet(graph) :
       \E i, j \in 1..Len(adjacencyList[p]) :
          i # j /\ adjacencyList[p][i] = adjacencyList[p][j]

\* a call on a well-formed graph whose ids are all keys of graph.points
KnownCall ==
  /\ WellFormed(graph)
  /\ IsShortestPathCall => KnownEnds
  /\ IsOptimalRouteCall => KnownDestinations

\* C22: on a well-formed graph with ids that are keys of graph.points,
\* every round of findShortestPath's loop either marks exactly one new point
\* of the graph visited and stays in the loop, or leaves the loop with
\* visited as it was, so there are at most |points| rounds; the walk back
\* never reads an undefined predecessor and is no longer than |points|;
\* every round of the greedy loop either makes the remaining list shorter or
\* returns, so there are at most as many rounds as destinations; and no
\* call is left in a round that never ends.
C22_BoundedRounds ==
  /\ [](KnownCall
        => /\ pc # "hang"
           /\ pc = "search" => visited \subseteq KeySet(graph)
           /\ pc = "reconstruct" =>
                /\ Undefineds(path) = 0 /\ current # Undefined
                /\ Len(path) + (IF current = Null THEN 0 ELSE 1) <= Len(graph.points)
           /\ pc = "greedy" =>
                Len(remainingDestinations) <= Len(call.destinations))
  /\ [][KnownCall /\ pc = "search"
        => \/ /\ pc' = "search"
              /\ visited \subseteq visited'
              /\ Cardinality(visited') = Cardinality(visited) + 1
           \/ /\ pc' \in {"reconstruct", "done"}
              /\ visited' = visited]_vars
  /\ [][KnownCall /\ pc = "greedy"
        => \/ /\ pc' = "greedy"
              /\ Len(remainingDestinations') < Len(remainingDestinations)
           \/ pc' = "done"]_vars

\* C22 witness: a greedy call took as many rounds as it has destinations,
\* each round one destination
C22_Witness ==
  /\ KnownCall /\ IsOptimalRouteCall /\ pc = "greedy"
  /\ Len(call.destinations) = MaxDests
  /\ Cardinality(Range(call.destinations)) = MaxDests
  /\ remainingDestinations = <<>>
  /\ Range(call.destinations) \subseteq Range(totalRoute.path)

\* the point the next round of the main loop selects (Null when none)
Selected == SelectCurrent(Keys(graph), distances, visited)

\* C23: during findShortestPath's main loop, on a graph with non-negative
\* distances, the point selected in a round (the unvisited point with the
\* least label, about to be marked visited or recognised as the target)
\* has for its label the least distance of any walk from startId, and so
\* has every visited point; a round leaves the labels of the visited
\* points as they are and raises no label.
C23_SelectedLabelIsFinal ==
  /\ [](pc = "search"
        => /\ Selected # Null =>
                distances[Selected] = LeastDistance(graph, call.startId, Selected)
           /\ \A p \in visited :
                distances[p] = LeastDistance(graph, call.startId, p))
  /\ [][pc = "search"
        => \A p \in DOMAIN distances :
             /\ p \in visited => distances'[p] = distances[p]
             /\ ~LessThan(distances[p], distances'[p])]_vars

\* C23 witness: the selected point is joined to startId by a connection
\* longer than its label, which an earlier round has lowered
C23_Witness ==
  /\ pc = "search" /\ Selected # Null /\ Selected # call.startId
  /\ Cardinality(visited) >= 2
  /\ \E i \in Between(graph, call.startId, Selected) :
       graph.connections[i].distance > distances[Selected]

\* C24: every path findShortestPath returns for a startId and an endId that
\* are keys of graph.points begins with startId, ends with endId, holds no
\* point twice, and every two consecutive points of it are joined by a
\* connection of the graph, in either stored direction.
C24_PathShape ==
  (pc = "done" /\ IsShortestPathCall /\ KnownEnds /\ result.kind = "route")
  => /\ result.path # <<>>
     /\ result.path[1] = call.startId
     /\ result.path[Len(result.path)] = call.endId
     /\ \A i, j \in 1..Len(result.path) : i # j => result.path[i] # result.path[j]
     /\ \A i \in 1..(Len(result.path) - 1) :
          Between(graph, result.path[i], result.path[i + 1]) # {}

\* C24 witness: a returned path through three different points although a
\* connection joins its ends directly
C24_Witness ==
  /\ pc = "done" /\ IsShortestPathCall /\ KnownEnds /\ result.kind = "route"
  /\ Len(result.path) = 3
  /\ Between(graph, call.startId, call.endId) # {}

\* the step is a click on the map
Clicked == Len(clicks') = Len(clicks) + 1

\* C25: in the Map component, once the map is ready and the parent has
\* given onLocationSelect, a click on the map while a selection mode is
\* active (after "Set starting point" or "Add destination" was pressed)
\* calls onLocationSelect with the clicked coordinates and that mode and
\* sets the selection mode back to null; a click while no mode is active
\* calls nothing.
C25_ClickSelectsInMode ==
  [][Clicked
     => LET e == clicks'[Len(clicks')]
        IN /\ (mapReady /\ onLocationSelect # Undefined /\ selectionMode # Null)
                => /\ selected' = Append(selected, [lng |-> e.lng, lat |-> e.lat,
                                                     type |-> selectionMode])
                   /\ selectionMode' = Null
           /\ selectionMode = Null => selected' = selected]_mapVars

====
